---- MODULE Spec2Model ----
(***************************************************************************)
(* Model of the market-indices service of src/market_indices.py: the       *)
(* module-level state (indices_data, data_loading, last_updated), the      *)
(* loader load_indices_data, the request handler get_historical_data and   *)
(* the synthetic series generator generate_historical_data.                *)
(*                                                                         *)
(* Numbers.  Prices are integers in thousandths (4847.69 is 4847690), so   *)
(* that current_value * 0.1 is exact for a price given in cents; products   *)
(* are taken with MulDiv, which is floor(a*b/c) without leaving 32 bits.    *)
(* A draw of random.random() is an integer in thousandths (0 .. 999).       *)
(* Times are minutes since 1970-01-01 00:00, dates are days since then.     *)
(***************************************************************************)
EXTENDS Integers, Sequences, FiniteSets, TLC

(***************************************************************************)
(* Bounds of the model.                                                    *)
(***************************************************************************)
\* the number of consecutive calendar days on which a call may be made
NumCallDays == 7
\* the draws of one call repeat with this period (1: one level per call)
StreamPeriod == 1
\* the portfolio holds at most this many items: requests that add wait
MaxPortfolio == 2
\* a JSON array of the vision API holds at most this many items
MaxItems == 3

(***************************************************************************)
(* Inputs.                                                                 *)
(***************************************************************************)
\* 2024-01-01, a Monday, as days since 1970-01-01: the first call day
FirstCallDay == 19723
MinutesPerDay == 24 * 60
\* the time of day (minutes after midnight) at which calls are made: 09:30
CallMinute == 570
CallTimes == {d * MinutesPerDay + CallMinute : d \in FirstCallDay .. (FirstCallDay + NumCallDays - 1)}
\* the time at which the service starts and loads its data
LoadTime == FirstCallDay * MinutesPerDay
\* random.random() returns a float in [0, 1): its lowest, middle and highest levels
RandLevels == {0, 500, 999}
\* the draws of a call: one for the starting value and a period of draws for
\* the steps, in which each draw after the first repeats the first or mirrors
\* it (lowest for highest)
Streams ==
    {rnd \in [start : RandLevels, steps : [1 .. StreamPeriod -> RandLevels]] :
        \A k \in 2 .. StreamPeriod : rnd.steps[k] \in {rnd.steps[1], 999 - rnd.steps[1]}}
Recognized == {"1D", "1M", "3M", "1Y", "5Y", "10Y"}
Timeframes == Recognized \cup {"7Y"}
\* the timeframe query parameter of a request: a tag, or absent
NoArg == "<absent>"
QueryArgs == Timeframes \cup {NoArg}
\* the symbols of requests: the three indices and one that is none of them
Symbols == {"SPX", "IXIC", "DJI", "AAPL"}
\* the symbols and the price (100.04) a direct caller passes; the handler
\* passes the values of the three indices
CallerSymbols == {"IXIC", "AAPL"}
CallerValues == {100040}

(***************************************************************************)
(* Arithmetic.                                                             *)
(***************************************************************************)
\* floor(a * b / c) for c > 0 and 0 <= b, computed without overflow
MulDiv(a, b, c) == (a \div c) * b + ((a % c) * b) \div c

Max(a, b) == IF a >= b THEN a ELSE b

\* round(x, 2) of a price in thousandths: to the nearest cent, halves to even
Round2(x) ==
    LET q == x \div 10
        r == x % 10
    IN  IF r < 5 THEN q * 10
        ELSE IF r > 5 THEN (q + 1) * 10
        ELSE IF q % 2 = 0 THEN q * 10 ELSE (q + 1) * 10

(***************************************************************************)
(* Calendar: datetime arithmetic and strftime of the proleptic Gregorian   *)
(* calendar.                                                               *)
(***************************************************************************)
DayOf(t) == t \div MinutesPerDay

\* datetime.weekday(): Monday is 0, Sunday is 6 (1970-01-01 was a Thursday)
Weekday(t) == (DayOf(t) + 3) % 7

\* a leap year of the Gregorian calendar
IsLeap(year) == year % 4 = 0 /\ (year % 100 # 0 \/ year % 400 = 0)

\* the number of leap years in 1 .. year
LeapsThrough(year) == year \div 4 - year \div 100 + year \div 400

\* the day number of January 1st of a year
DaysBeforeYear(year) == (year - 1970) * 365 + LeapsThrough(year - 1) - LeapsThrough(1969)

\* the days of a common year before the first of each month (and of the next January)
CumDays == << 0, 31, 59, 90, 120, 151, 181, 212, 243, 273, 304, 334, 365 >>

\* the days of a year before the first of a month
DaysBeforeMonth(year, month) ==
    CumDays[month] + (IF month > 2 /\ IsLeap(year) THEN 1 ELSE 0)

\* the year of a day number
YearOf(day) ==
    CHOOSE year \in (1970 + day \div 366) .. (1971 + day \div 366) :
        DaysBeforeYear(year) <= day /\ day < DaysBeforeYear(year + 1)

\* the month of the day of the year doy (0 for January 1st)
MonthOf(year, doy) ==
    CHOOSE month \in 1 .. 12 :
        DaysBeforeMonth(year, month) <= doy /\ doy < DaysBeforeMonth(year, month + 1)

\* the civil date [y, m, d] of a day number
CivilOf(year, doy, month) ==
    [y |-> year, m |-> month, d |-> doy - DaysBeforeMonth(year, month) + 1]

CivilOfYear(year, doy) == CivilOf(year, doy, MonthOf(year, doy))

CivilInYear(year, day) == CivilOfYear(year, day - DaysBeforeYear(year))

Civil(day) == CivilInYear(YearOf(day), day)

\* A label is the format that produced it and the two numbers it shows; the
\* empty string is EmptyLabel.
EmptyLabel == [fmt |-> "", a |-> 0, b |-> 0]

\* a label showing the month of a civil date and its day or its year
MonthLabel(fmt, date, second) == [fmt |-> fmt, a |-> date.m, b |-> second]

DayLabel(fmt, date) == MonthLabel(fmt, date, date.d)

\* point_date.strftime(fmt)
Strftime(t, fmt) ==
    CASE fmt = "%H:%M" -> [fmt |-> fmt, a |-> (t % MinutesPerDay) \div 60, b |-> t % 60]
      [] fmt = "%m/%d" -> DayLabel(fmt, Civil(DayOf(t)))
      [] fmt = "%b %Y" -> MonthLabel(fmt, Civil(DayOf(t)), YearOf(DayOf(t)))
      [] fmt = "%Y" -> [fmt |-> fmt, a |-> YearOf(DayOf(t)), b |-> 0]

(***************************************************************************)
(* generate_index_data and the tables of generate_historical_data.         *)
(***************************************************************************)
generate_index_data ==
    << [symbol |-> "SPX", value |-> 4847690],
       [symbol |-> "IXIC", value |-> 15234780],
       [symbol |-> "DJI", value |-> 38789120] >>

Config1Y == [days |-> 365, interval_hours |-> 24, points |-> 365]

\* timeframe_config.get(timeframe, timeframe_config['1Y'])
timeframe_config(timeframe) ==
    CASE timeframe = "1D" -> [days |-> 1, interval_hours |-> 1, points |-> 24]
      [] timeframe = "1M" -> [days |-> 30, interval_hours |-> 24, points |-> 30]
      [] timeframe = "3M" -> [days |-> 90, interval_hours |-> 24, points |-> 90]
      [] timeframe = "1Y" -> Config1Y
      [] timeframe = "5Y" -> [days |-> 1825, interval_hours |-> 168, points |-> 260]
      [] timeframe = "10Y" -> [days |-> 3650, interval_hours |-> 336, points |-> 260]
      [] OTHER -> Config1Y

\* the starting multiplier, in thousandths, for a draw r
StartFactor(timeframe, r) ==
    IF timeframe = "1D" THEN 980 + (r * 40) \div 1000
    ELSE IF timeframe \in {"1M", "3M"} THEN 850 + (r * 300) \div 1000
    ELSE IF timeframe = "1Y" THEN 700 + (r * 600) \div 1000
    ELSE 300 + (r * 400) \div 1000

\* the keys of volatility_map
VolatilityKeys == {"1D", "1M", "3M", "1Y", "5Y", "10Y"}

DefaultVolatility == 15

\* volatility_map whose default for a symbol without an entry is 0
volatility_mapZeroDefault(timeframe, symbol) ==
    LET row == CASE timeframe = "1D" -> [SPX |-> 5, IXIC |-> 8, DJI |-> 4]
                 [] timeframe \in {"1M", "3M", "1Y"} -> [SPX |-> 15, IXIC |-> 25, DJI |-> 12]
                 [] timeframe = "5Y" -> [SPX |-> 20, IXIC |-> 30, DJI |-> 15]
                 [] timeframe = "10Y" -> [SPX |-> 25, IXIC |-> 35, DJI |-> 18]
    IN  CASE symbol = "SPX" -> row.SPX
          [] symbol = "IXIC" -> row.IXIC
          [] symbol = "DJI" -> row.DJI
          [] OTHER -> 0

\* volatility_map[timeframe].get(symbol, 0.015), in thousandths
volatility_map(timeframe, symbol) ==
    LET row == CASE timeframe = "1D" -> [SPX |-> 5, IXIC |-> 8, DJI |-> 4]
                 [] timeframe \in {"1M", "3M", "1Y"} -> [SPX |-> 15, IXIC |-> 25, DJI |-> 12]
                 [] timeframe = "5Y" -> [SPX |-> 20, IXIC |-> 30, DJI |-> 15]
                 [] timeframe = "10Y" -> [SPX |-> 25, IXIC |-> 35, DJI |-> 18]
    IN  CASE symbol = "SPX" -> row.SPX
          [] symbol = "IXIC" -> row.IXIC
          [] symbol = "DJI" -> row.DJI
          [] OTHER -> DefaultVolatility

\* the k-th draw of random.random() of a call: draw 0 sets the starting value
Draw(rnd, k) ==
    IF k = 0 THEN rnd.start ELSE rnd.steps[((k - 1) % StreamPeriod) + 1]

(***************************************************************************)
(* The loop of generate_historical_data.                                   *)
(***************************************************************************)
\* PointDate with the long timeframes stepping one day at a time
PointDateDaily(timeframe, config, start_date, i) ==
    IF timeframe = "1D" THEN start_date + i * 60
    ELSE start_date + i * MinutesPerDay

\* PointDate counting down from the last step: the newest date first
PointDateNewestFirst(timeframe, config, start_date, i) ==
    IF timeframe = "1D" THEN start_date + (config.points - 1 - i) * 60
    ELSE IF timeframe \in {"1M", "3M", "1Y"}
         THEN start_date + (config.points - 1 - i) * MinutesPerDay
    ELSE start_date + (config.points - 1 - i) * (config.days \div config.points) * MinutesPerDay

\* point_date of step i
PointDate(timeframe, config, start_date, i) ==
    IF timeframe = "1D" THEN start_date + i * 60
    ELSE IF timeframe \in {"1M", "3M", "1Y"} THEN start_date + i * MinutesPerDay
    ELSE start_date + i * (config.days \div config.points) * MinutesPerDay

\* DateFormat with the 1Y label shown every 7th day instead of every 30th
DateFormatWeekly(timeframe, point_date, i) ==
    IF timeframe = "1D" THEN Strftime(point_date, "%H:%M")
    ELSE IF timeframe \in {"1M", "3M"} THEN Strftime(point_date, "%m/%d")
    ELSE IF timeframe = "1Y"
         THEN IF i % 7 = 0 THEN Strftime(point_date, "%b %Y") ELSE EmptyLabel
    ELSE Strftime(point_date, "%Y")

\* date_format of step i
DateFormat(timeframe, point_date, i) ==
    IF timeframe = "1D" THEN Strftime(point_date, "%H:%M")
    ELSE IF timeframe \in {"1M", "3M"} THEN Strftime(point_date, "%m/%d")
    ELSE IF timeframe = "1Y"
         THEN IF i % 30 = 0 THEN Strftime(point_date, "%b %Y") ELSE EmptyLabel
    ELSE Strftime(point_date, "%Y")

\* SkipStep with the weekend test off by one: Saturdays pass
SkipStepSundayOnly(timeframe, point_date) == timeframe # "1D" /\ Weekday(point_date) > 5

\* SkipStep without the exception for the 1D view
SkipStepEveryTimeframe(timeframe, point_date) == Weekday(point_date) >= 5

\* the test that skips a step
SkipStep(timeframe, point_date) == timeframe # "1D" /\ Weekday(point_date) >= 5

\* NextBase without the floor
NextBaseNoFloor(base_value, trend, volatility, r, current_value) ==
    base_value + trend + MulDiv(MulDiv(base_value, volatility, 1000), r, 1000)
               - MulDiv(base_value, volatility, 2000)

\* base_value after one executed step: trend plus random movement, then the floor
NextBase(base_value, trend, volatility, r, current_value) ==
    LET daily_change == trend + MulDiv(MulDiv(base_value, volatility, 1000), r, 1000)
                              - MulDiv(base_value, volatility, 2000)
    IN  Max(base_value + daily_change, current_value \div 10)

\* AppendPoint appending the point twice
AppendPointTwice(st, date_format, point_date, b) ==
    IF date_format # EmptyLabel
    THEN [st EXCEPT !.labels = Append(Append(@, date_format), date_format),
                    !.data_points = Append(Append(@, Round2(b)), Round2(b)),
                    !.point_dates = Append(Append(@, point_date), point_date)]
    ELSE st

\* AppendPoint appending the value whatever the label is
AppendPointUnlabelled(st, date_format, point_date, b) ==
    IF date_format # EmptyLabel
    THEN [st EXCEPT !.labels = Append(@, date_format),
                    !.data_points = Append(@, Round2(b)),
                    !.point_dates = Append(@, point_date)]
    ELSE [st EXCEPT !.data_points = Append(@, Round2(b))]

\* if date_format: labels.append(date_format); data_points.append(round(base_value, 2))
AppendPoint(st, date_format, point_date, b) ==
    IF date_format # EmptyLabel
    THEN [st EXCEPT !.labels = Append(@, date_format),
                    !.data_points = Append(@, Round2(b)),
                    !.point_dates = Append(@, point_date)]
    ELSE st

\* LoopStep appending a point only when its value differs from the last one
LoopStepDropsRepeats(c, st, i) ==
    LET point_date == PointDate(c.timeframe, c.config, c.start_date, i)
        date_format == DateFormat(c.timeframe, point_date, i)
    IN  IF SkipStep(c.timeframe, point_date) THEN st
        ELSE LET b == NextBase(st.base_value, c.trend, c.volatility,
                               Draw(c.rnd, st.applied + 1), c.current_value)
                 n == Len(st.data_points)
                 moved == [st EXCEPT !.base_value = b, !.applied = @ + 1]
             IN  IF n = 0 \/ st.data_points[n] # Round2(b)
                 THEN AppendPoint(moved, date_format, point_date, b)
                 ELSE moved

\* LoopStep leaving the running value alone on a step whose label is empty
LoopStepSkipsUnlabelled(c, st, i) ==
    LET point_date == PointDate(c.timeframe, c.config, c.start_date, i)
        date_format == DateFormat(c.timeframe, point_date, i)
    IN  IF SkipStep(c.timeframe, point_date) \/ date_format = EmptyLabel THEN st
        ELSE LET b == NextBase(st.base_value, c.trend, c.volatility,
                               Draw(c.rnd, st.applied + 1), c.current_value)
             IN  AppendPoint([st EXCEPT !.base_value = b, !.applied = @ + 1],
                             date_format, point_date, b)

\* One iteration of the for loop on the locals st.  Three fields are history
\* the code does not keep: applied counts the steps that were not skipped,
\* point_dates records the point_date of every appended point, and paired
\* tells whether labels and data_points had the same length after every
\* iteration so far.
LoopStep(c, st, i) ==
    LET point_date == PointDate(c.timeframe, c.config, c.start_date, i)
        date_format == DateFormat(c.timeframe, point_date, i)
    IN  IF SkipStep(c.timeframe, point_date) THEN st
        ELSE LET b == NextBase(st.base_value, c.trend, c.volatility,
                               Draw(c.rnd, st.applied + 1), c.current_value)
                 nxt == AppendPoint([st EXCEPT !.base_value = b, !.applied = @ + 1],
                                    date_format, point_date, b)
             IN  [nxt EXCEPT !.paired = @ /\ Len(nxt.labels) = Len(nxt.data_points)]

RECURSIVE Loop(_, _, _, _)
\* for i in range(lo, hi): the iterations in order.  The range is split in
\* halves, and the first half is evaluated before the second is entered, so
\* that the evaluation nests no deeper than the logarithm of its length.
Loop(c, st, lo, hi) ==
    IF lo >= hi THEN st
    ELSE IF hi = lo + 1 THEN LoopStep(c, st, lo)
    ELSE LET mid == (lo + hi) \div 2
             left == Loop(c, st, lo, mid)
         IN  IF left.applied >= 0 THEN Loop(c, left, mid, hi) ELSE left

\* generate_historical_data starting a symbol without a volatility entry at
\* current_value
generate_historical_dataSymbolStart(current_value, symbol, timeframe, now, rnd) ==
    LET config == timeframe_config(timeframe)
        start_date == now - config.days * MinutesPerDay
        base_value == IF symbol \in {"SPX", "IXIC", "DJI"}
                      THEN MulDiv(current_value, StartFactor(timeframe, Draw(rnd, 0)), 1000)
                      ELSE current_value
    IN  IF timeframe \notin VolatilityKeys
        THEN [raised |-> "KeyError", labels |-> << >>, data_points |-> << >>,
              point_dates |-> << >>, applied |-> 0, paired |-> TRUE,
              base_value |-> base_value, start_value |-> base_value,
              points |-> config.points, volatility |-> 0]
        ELSE LET c == [current_value |-> current_value, timeframe |-> timeframe,
                       config |-> config, start_date |-> start_date, rnd |-> rnd,
                       volatility |-> volatility_map(timeframe, symbol),
                       trend |-> (current_value - base_value) \div config.points]
                 st == Loop(c, [base_value |-> base_value, labels |-> << >>,
                                data_points |-> << >>, point_dates |-> << >>,
                                applied |-> 0, paired |-> TRUE], 0, config.points)
             IN  [raised |-> "", labels |-> st.labels, data_points |-> st.data_points,
                  point_dates |-> st.point_dates, applied |-> st.applied,
                  paired |-> st.paired,
                  base_value |-> st.base_value, start_value |-> base_value,
                  points |-> config.points, volatility |-> c.volatility]

\* generate_historical_data(current_value, symbol, timeframe) called at time
\* now with the draws rnd: what it returns, or the exception it raises.  The
\* record also carries locals of the call at its end (volatility, base_value,
\* the starting value, the point count) and the history kept by LoopStep.
generate_historical_data(current_value, symbol, timeframe, now, rnd) ==
    LET config == timeframe_config(timeframe)
        start_date == now - config.days * MinutesPerDay
        base_value == MulDiv(current_value, StartFactor(timeframe, Draw(rnd, 0)), 1000)
    IN  IF timeframe \notin VolatilityKeys
        THEN [raised |-> "KeyError", labels |-> << >>, data_points |-> << >>,
              point_dates |-> << >>, applied |-> 0, paired |-> TRUE,
              base_value |-> base_value, start_value |-> base_value,
              points |-> config.points, volatility |-> 0]
        ELSE LET c == [current_value |-> current_value, timeframe |-> timeframe,
                       config |-> config, start_date |-> start_date, rnd |-> rnd,
                       volatility |-> volatility_map(timeframe, symbol),
                       trend |-> (current_value - base_value) \div config.points]
                 st == Loop(c, [base_value |-> base_value, labels |-> << >>,
                                data_points |-> << >>, point_dates |-> << >>,
                                applied |-> 0, paired |-> TRUE], 0, config.points)
             IN  [raised |-> "", labels |-> st.labels, data_points |-> st.data_points,
                  point_dates |-> st.point_dates, applied |-> st.applied,
                  paired |-> st.paired,
                  base_value |-> st.base_value, start_value |-> base_value,
                  points |-> config.points, volatility |-> c.volatility]

(***************************************************************************)
(* State.                                                                  *)
(***************************************************************************)
VARIABLES
    indices_data,   \* the module's list of indices
    data_loading,   \* the module's loading flag
    last_updated,   \* the module's time of the last load, 0 for None
    call,           \* the arguments, time and draws of the call made last
    ret,            \* what that call returned or raised
    response,       \* the response of the request handled last
    threads,        \* market_indices: the calls of generate_historical_data in progress
    api_key,        \* sp500_fetcher: the key of the fetcher, "" for None
    stock_ret,      \* sp500_fetcher: what the fetcher call made last returned
    stock_response, \* sp500_server: the response of the request handled last
    openai_api_key, \* backend: openai.api_key, "" for None
    USER_PORTFOLIO, \* backend: the list of portfolio items
    handlers,       \* backend: the request handlers in progress
    analysis,       \* backend: a call of analyze_makeup_image and what it returned
    stocks_data,    \* quick_server: the module's list of stocks
    quick_data_loading, \* quick_server: its flag data_loading
    quick_last_updated, \* quick_server: its last_updated, 0 for None
    loader,         \* quick_server: the background loader thread
    status          \* quick_server: the handler of /api/data-status

indexVars == << indices_data, data_loading, last_updated, call, ret, response >>

stockVars == << api_key, stock_ret, stock_response >>

backendVars == << openai_api_key, USER_PORTFOLIO, handlers, analysis >>

quickVars == << stocks_data, quick_data_loading, quick_last_updated, loader, status >>

vars == << indexVars, threads, stockVars, backendVars, quickVars >>

NoCall == [current_value |-> 0, symbol |-> "", timeframe |-> "", now |-> 0,
           rnd |-> [start |-> 0, steps |-> [k \in 1 .. StreamPeriod |-> 0]]]

NoRet == [raised |-> "none", labels |-> << >>, data_points |-> << >>,
          point_dates |-> << >>, applied |-> 0, paired |-> TRUE, base_value |-> 0,
          start_value |-> 0, points |-> 0, volatility |-> 0]

NoResponse == [status |-> 0, success |-> FALSE, error |-> "", timeframe |-> "",
               labels |-> << >>, values |-> << >>]

\* the requests served at the same time (each by a thread of its own)
Threads == {1, 2}

\* the locals of a call before its first assignment
NoLocals == [base_value |-> 0, labels |-> << >>, data_points |-> << >>,
             point_dates |-> << >>, applied |-> 0, paired |-> TRUE]

\* a thread that is in no call.  within is history: the call was entered
\* while another call was inside its loop.
IdleThread == [pc |-> "idle", call |-> NoCall, i |-> 0, st |-> NoLocals,
               raised |-> "none", within |-> FALSE]

\* config.ALPHA_VANTAGE_API_KEY: a non-empty string
ALPHA_VANTAGE_API_KEY == "configured key"

\* Python's None where a quote record is expected
None == [symbol |-> "<None>", price |-> 0, market_cap |-> 0]

NoStockRet == [called |-> "none", symbol |-> "", outcomes |-> << >>, raised |-> "",
               value |-> << >>]

NoStockResponse == [status |-> 0, success |-> FALSE, arg |-> "", error |-> << >>,
                    data |-> None]
\* the requests the backend handles at the same time
Handlers == {1, 2}

NoFile == [content_type |-> "", image |-> ""]

NoItem == [id |-> 0, name |-> "", brand |-> "", category |-> "", custom_entry |-> FALSE,
           detected_products |-> << >>]

NoBackendResponse == [status |-> 0, success |-> FALSE, detail |-> << >>, message |-> "",
                      products |-> << >>, products_detected |-> 0, product |-> NoItem]

\* a handler that serves no request
\* no call of analyze_makeup_image
NoAnalysis == [image |-> "", vision |-> [kind |-> "", items |-> << >>, words |-> {}],
               returned |-> << >>]

IdleHandler == [op |-> "idle", pc |-> "idle", file |-> NoFile, product_name |-> "", product_id |-> 0,
                response |-> NoBackendResponse]
\* the handler of /api/data-status between requests; its fields are the
\* values it has read so far
IdleStatus == [pc |-> "idle", data_ready |-> FALSE, stocks_count |-> 0, last_updated |-> 0]

\* the state after the services have been started: market_indices before its
\* load, the fetcher of sp500_server with the key of config, the backend
\* without OPENAI_API_KEY in its environment
Init ==
    /\ indices_data = << >>
    /\ data_loading = TRUE
    /\ last_updated = 0
    /\ call = NoCall
    /\ ret = NoRet
    /\ response = NoResponse
    /\ threads = [t \in Threads |-> IdleThread]
    /\ api_key = ALPHA_VANTAGE_API_KEY
    /\ stock_ret = NoStockRet
    /\ stock_response = NoStockResponse
    /\ openai_api_key = ""
    /\ USER_PORTFOLIO = << >>
    /\ handlers = [h \in Handlers |-> IdleHandler]
    /\ analysis = NoAnalysis
    /\ stocks_data = << >>
    /\ quick_data_loading = TRUE
    /\ quick_last_updated = 0
    /\ loader = "idle"
    /\ status = IdleStatus

\* load_indices_data(), run once when the service starts
LoadIndicesData ==
    /\ data_loading
    /\ ret = NoRet
    /\ indices_data' = generate_index_data
    /\ last_updated' = LoadTime
    /\ data_loading' = FALSE
    /\ UNCHANGED << call, ret, response, threads, quickVars, stockVars, backendVars >>

\* a call generate_historical_data(current_value, symbol, timeframe)
GenerateHistoricalData ==
    /\ ret = NoRet
    /\ response = NoResponse
    /\ \E current_value \in CallerValues, symbol \in CallerSymbols, timeframe \in Timeframes,
          now \in CallTimes, rnd \in Streams :
           /\ call' = [current_value |-> current_value, symbol |-> symbol,
                       timeframe |-> timeframe, now |-> now, rnd |-> rnd]
           /\ ret' = generate_historical_data(current_value, symbol, timeframe, now, rnd)
    /\ UNCHANGED << indices_data, data_loading, last_updated, response, threads, quickVars,
                    stockVars, backendVars >>

\* next((idx for idx in indices_data if idx['symbol'] == symbol), None):
\* the position of the first match, 0 for None
FindIndex(symbol) ==
    LET found == {k \in DOMAIN indices_data : indices_data[k].symbol = symbol}
    IN  IF found = {} THEN 0 ELSE CHOOSE k \in found : \A j \in found : k <= j

\* request.args.get('timeframe', '1Y')
RequestTimeframe(arg) == IF arg = NoArg THEN "1Y" ELSE arg

\* GET /api/historical/<symbol>?timeframe=<arg>: an exception of the handler
\* is answered with status 500
GetHistoricalData ==
    /\ ret = NoRet
    /\ response = NoResponse
    /\ \E symbol \in Symbols, arg \in QueryArgs, now \in CallTimes, rnd \in Streams :
          LET timeframe == RequestTimeframe(arg)
              k == FindIndex(symbol)
          IN  IF k = 0
              THEN /\ response' = [status |-> 200, success |-> FALSE,
                                   error |-> "Index not found", timeframe |-> "",
                                   labels |-> << >>, values |-> << >>]
                   /\ UNCHANGED << call, ret >>
              ELSE LET r == generate_historical_data(indices_data[k].value, symbol,
                                                     timeframe, now, rnd)
                   IN  /\ call' = [current_value |-> indices_data[k].value,
                                   symbol |-> symbol, timeframe |-> timeframe,
                                   now |-> now, rnd |-> rnd]
                       /\ ret' = r
                       /\ response' =
                             IF r.raised # ""
                             THEN [status |-> 500, success |-> FALSE, error |-> r.raised,
                                   timeframe |-> "", labels |-> << >>, values |-> << >>]
                             ELSE [status |-> 200, success |-> TRUE, error |-> "",
                                   timeframe |-> timeframe, labels |-> r.labels,
                                   values |-> r.data_points]
    /\ UNCHANGED << indices_data, data_loading, last_updated, threads, quickVars, stockVars,
                    backendVars >>

\* the caller has consumed the result: the locals of the call are gone
Discard ==
    /\ ret # NoRet \/ response # NoResponse
    /\ call' = NoCall
    /\ ret' = NoRet
    /\ response' = NoResponse
    /\ UNCHANGED << indices_data, data_loading, last_updated, threads, quickVars, stockVars,
                    backendVars >>

Next == LoadIndicesData \/ GenerateHistoricalData \/ GetHistoricalData \/ Discard

Spec == Init /\ [][Next]_vars

(***************************************************************************)
(* Calls of generate_historical_data served at the same time, one loop     *)
(* iteration at a time.  The statements of a call read and write only its  *)
(* own locals, the clock and the draws, so a finer step shows no more.     *)
(***************************************************************************)
\* the time of the calls: the third call day
ThreadTime == (FirstCallDay + 2) * MinutesPerDay + CallMinute

\* the draws of the calls: all lowest, or all highest
ThreadStreams == {rnd \in Streams : rnd.start \in {0, 999} /\ \A k \in 1 .. StreamPeriod : rnd.steps[k] = rnd.start}

ThreadCalls == [current_value : CallerValues, symbol : CallerSymbols,
                timeframe : {"1D", "1M", "7Y"}, now : {ThreadTime}, rnd : ThreadStreams]

\* the values a call fixes before its loop
Setup(cl) ==
    LET config == timeframe_config(cl.timeframe)
        base_value == MulDiv(cl.current_value, StartFactor(cl.timeframe, Draw(cl.rnd, 0)), 1000)
    IN  [current_value |-> cl.current_value, timeframe |-> cl.timeframe, config |-> config,
         start_date |-> cl.now - config.days * MinutesPerDay, rnd |-> cl.rnd,
         volatility |-> volatility_map(cl.timeframe, cl.symbol),
         trend |-> (cl.current_value - base_value) \div config.points,
         base_value |-> base_value]

\* Locals with one set of locals for all threads, as module globals would be
LocalsShared(t) == threads[1].st

\* data_points, labels, base_value of the call of thread t: locals of its frame
Locals(t) == threads[t].st

\* thread t enters generate_historical_data and runs up to the loop; an
\* unrecognized tag ends the call with KeyError
Enter(t) ==
    /\ threads[t].pc = "idle"
    /\ \E cl \in ThreadCalls :
          threads' = [threads EXCEPT ![t] =
              IF cl.timeframe \notin VolatilityKeys
              THEN [IdleThread EXCEPT !.pc = "done", !.call = cl, !.raised = "KeyError"]
              ELSE [pc |-> "loop", call |-> cl, i |-> 0,
                    st |-> [NoLocals EXCEPT !.base_value = Setup(cl).base_value],
                    raised |-> "",
                    within |-> \E u \in Threads \ {t} :
                                  threads[u].pc = "loop" /\ threads[u].i > 0]]
    /\ UNCHANGED << indexVars, stockVars, backendVars, quickVars >>

\* thread t runs one iteration of its loop
Step(t) ==
    /\ threads[t].pc = "loop"
    /\ threads[t].i < Setup(threads[t].call).config.points
    /\ threads' = [threads EXCEPT
                      ![t].st = LoopStep(Setup(threads[t].call), Locals(t), threads[t].i),
                      ![t].i = @ + 1]
    /\ UNCHANGED << indexVars, stockVars, backendVars, quickVars >>

\* thread t leaves its loop and returns labels, data_points
Return(t) ==
    /\ threads[t].pc = "loop"
    /\ threads[t].i = Setup(threads[t].call).config.points
    /\ threads' = [threads EXCEPT ![t].pc = "done"]
    /\ UNCHANGED << indexVars, stockVars, backendVars, quickVars >>

\* the caller of thread t has consumed the result
Leave(t) ==
    /\ threads[t].pc = "done"
    /\ threads' = [threads EXCEPT ![t] = IdleThread]
    /\ UNCHANGED << indexVars, stockVars, backendVars, quickVars >>

NextThreads ==
    \/ LoadIndicesData
    \/ \E t \in Threads : Enter(t) \/ Step(t) \/ Return(t) \/ Leave(t)

SpecThreads == Init /\ [][NextThreads]_vars

(***************************************************************************)
(* sp500_fetcher and sp500_server.  A quote record keeps the keys symbol   *)
(* and price of the dictionary, and market_cap, a key that only            *)
(* generate_demo_data sets: 0 stands for its absence.  Prices are whole    *)
(* dollars, market caps billions.                                          *)
(***************************************************************************)
\* the keys a fetcher is constructed with: that of config, or None
ApiKeys == {ALPHA_VANTAGE_API_KEY, ""}

\* _load_sp500_symbols()
sp500_symbols == << "AAPL", "MSFT", "GOOGL", "AMZN", "NVDA" >>

\* what a request to the quote API can come to: a response with a full
\* 'Global Quote' for the symbol asked, with an empty one, with one whose
\* price is no number, a response without 'Global Quote', an HTTP error
\* status, a failed connection, a body that is no JSON
ApiOutcomes ==
    [kind : {"quote"}, price : {189}]
        \cup [kind : {"empty_quote", "bad_number", "no_global_quote", "http_error",
                      "connection_error", "bad_json"}, price : {0}]

\* the outcomes in which a statement of the try block raises
RaisingKinds == {"bad_number", "http_error", "connection_error", "bad_json"}

\* the two draws random.uniform(50, 500) and random.uniform(100, 3000) of
\* generate_demo_data: lowest or highest, in whole units
DemoDraws == [price : {50, 499}, market_cap : {100, 2999}]

\* the symbols of requests: configured, in lower case, unknown
StockArgs == {"AAPL", "aapl", "NVDA", "ZZZZ"}

\* symbol.upper()
Upper(symbol) == IF symbol = "aapl" THEN "AAPL" ELSE symbol

\* base_prices.get(symbol, random.uniform(50, 500))
base_prices(symbol, draw) ==
    CASE symbol = "AAPL" -> 175
      [] symbol = "MSFT" -> 330
      [] symbol = "AMZN" -> 140
      [] symbol = "GOOGL" -> 130
      [] symbol = "NVDA" -> 450
      [] OTHER -> draw.price

\* market_caps.get(symbol, random.uniform(100, 3000))
market_caps(symbol, draw) ==
    CASE symbol = "AAPL" -> 2800
      [] symbol = "MSFT" -> 2400
      [] symbol = "GOOGL" -> 1600
      [] symbol = "AMZN" -> 1400
      [] symbol = "NVDA" -> 1100
      [] OTHER -> draw.market_cap

generate_demo_data(symbol, draw) ==
    [symbol |-> symbol, price |-> base_prices(symbol, draw),
     market_cap |-> market_caps(symbol, draw)]

\* get_stock_quote returning None when the request fails, as its docstring says
get_stock_quoteNoneOnError(key, symbol, outcome, draw) ==
    IF key = "" THEN [raised |-> "", value |-> generate_demo_data(symbol, draw)]
    ELSE IF outcome.kind \in RaisingKinds \cup {"no_global_quote"}
         THEN [raised |-> "", value |-> None]
    ELSE [raised |-> "", value |-> [symbol |-> symbol, price |-> outcome.price,
                                    market_cap |-> 0]]

\* self.get_stock_quote(symbol) of a fetcher with the key key, when the
\* request comes to outcome: the exception it raises ("" for none) and the
\* value it returns.  The API names in '01. symbol' the symbol it was asked.
get_stock_quote(key, symbol, outcome, draw) ==
    IF key = "" THEN [raised |-> "", value |-> generate_demo_data(symbol, draw)]
    ELSE IF outcome.kind \in RaisingKinds
         THEN [raised |-> "", value |-> generate_demo_data(symbol, draw)]
    ELSE IF outcome.kind = "no_global_quote"
         THEN [raised |-> "", value |-> generate_demo_data(symbol, draw)]
    ELSE [raised |-> "", value |-> [symbol |-> symbol, price |-> outcome.price,
                                    market_cap |-> 0]]

\* get_company_info(symbol): the name (for a symbol without one, the symbol
\* followed by ' Corporation') and the sector
get_company_info(symbol) ==
    CASE symbol = "AAPL" -> [name |-> "Apple Inc.", sector |-> "Technology"]
      [] symbol = "MSFT" -> [name |-> "Microsoft Corporation", sector |-> "Technology"]
      [] symbol = "GOOGL" -> [name |-> "Alphabet Inc.", sector |-> "Technology"]
      [] symbol = "AMZN" -> [name |-> "Amazon.com Inc.", sector |-> "Consumer Discretionary"]
      [] symbol = "NVDA" -> [name |-> "NVIDIA Corporation", sector |-> "Technology"]
      [] OTHER -> [name |-> "<symbol> Corporation", sector |-> "Technology"]

\* stock_data.update(company_info)
Update(stock_data, company_info) ==
    [symbol |-> stock_data.symbol, price |-> stock_data.price,
     market_cap |-> stock_data.market_cap, name |-> company_info.name,
     sector |-> company_info.sector]

RECURSIVE FetchLoop(_, _, _, _)
\* the loop of fetch_all_stocks from the k-th symbol on: stocks_data at its
\* end, or the exception that ended it
FetchLoop(key, outcomes, draw, k) ==
    IF k > Len(sp500_symbols) THEN [raised |-> "", value |-> << >>]
    ELSE LET q == get_stock_quote(key, sp500_symbols[k], outcomes[k], draw)
             rest == FetchLoop(key, outcomes, draw, k + 1)
         IN  IF q.raised # "" THEN [raised |-> q.raised, value |-> << >>]
             ELSE IF rest.raised # "" THEN rest
             ELSE IF q.value # None
                  THEN [raised |-> "",
                        value |-> << Update(q.value, get_company_info(sp500_symbols[k])) >>
                                      \o rest.value]
             ELSE rest

\* self.fetch_all_stocks()
fetch_all_stocks(key, outcomes, draw) == FetchLoop(key, outcomes, draw, 1)

\* a call stock_fetcher.get_stock_quote(symbol)
GetStockQuote ==
    /\ stock_ret = NoStockRet
    /\ stock_response = NoStockResponse
    /\ \E symbol \in StockArgs, outcome \in ApiOutcomes, draw \in DemoDraws :
          LET r == get_stock_quote(api_key, symbol, outcome, draw)
          IN  stock_ret' = [called |-> "get_stock_quote", symbol |-> symbol,
                            outcomes |-> << outcome >>, raised |-> r.raised,
                            value |-> << r.value >>]
    /\ UNCHANGED << api_key, stock_response, indexVars, threads, quickVars, backendVars >>

\* a call stock_fetcher.fetch_all_stocks()
FetchAllStocks ==
    /\ stock_ret = NoStockRet
    /\ stock_response = NoStockResponse
    /\ \E outcomes \in [DOMAIN sp500_symbols -> ApiOutcomes], draw \in DemoDraws :
          LET r == fetch_all_stocks(api_key, outcomes, draw)
          IN  stock_ret' = [called |-> "fetch_all_stocks", symbol |-> "",
                            outcomes |-> outcomes, raised |-> r.raised,
                            value |-> r.value]
    /\ UNCHANGED << api_key, stock_response, indexVars, threads, quickVars, backendVars >>

\* GET /api/stock/<symbol> of sp500_server
GetStock ==
    /\ stock_ret = NoStockRet
    /\ stock_response = NoStockResponse
    /\ \E symbol \in StockArgs, outcome \in ApiOutcomes, draw \in DemoDraws :
          LET r == get_stock_quote(api_key, Upper(symbol), outcome, draw)
          IN  /\ stock_ret' = [called |-> "get_stock_quote", symbol |-> Upper(symbol),
                               outcomes |-> << outcome >>, raised |-> r.raised,
                               value |-> << r.value >>]
              /\ stock_response' =
                    IF r.raised # ""
                    THEN [status |-> 500, success |-> FALSE, arg |-> symbol,
                          error |-> << r.raised >>, data |-> None]
                    ELSE IF r.value # None
                    THEN [status |-> 200, success |-> TRUE, arg |-> symbol,
                          error |-> << >>, data |-> r.value]
                    ELSE [status |-> 404, success |-> FALSE, arg |-> symbol,
                          error |-> << "Stock ", symbol, " not found" >>, data |-> None]
    /\ UNCHANGED << api_key, indexVars, threads, quickVars, backendVars >>

\* the caller has consumed the result
DiscardStock ==
    /\ stock_ret # NoStockRet \/ stock_response # NoStockResponse
    /\ stock_ret' = NoStockRet
    /\ stock_response' = NoStockResponse
    /\ UNCHANGED << api_key, indexVars, threads, quickVars, backendVars >>

NextStocks == GetStockQuote \/ FetchAllStocks \/ GetStock \/ DiscardStock

\* a fetcher constructed with the key of config or with none
InitFetcher ==
    /\ indices_data = << >>
    /\ data_loading = TRUE
    /\ last_updated = 0
    /\ call = NoCall
    /\ ret = NoRet
    /\ response = NoResponse
    /\ threads = [t \in Threads |-> IdleThread]
    /\ api_key \in ApiKeys
    /\ stock_ret = NoStockRet
    /\ stock_response = NoStockResponse
    /\ openai_api_key = ""
    /\ USER_PORTFOLIO = << >>
    /\ handlers = [h \in Handlers |-> IdleHandler]
    /\ analysis = NoAnalysis
    /\ stocks_data = << >>
    /\ quick_data_loading = TRUE
    /\ quick_last_updated = 0
    /\ loader = "idle"
    /\ status = IdleStatus

SpecStocks == InitFetcher /\ [][NextStocks]_vars

(***************************************************************************)
(* backend/app/main.py.  A product of MAKEUP_DATABASE is named by its key, *)
(* the generic product by "general".  A portfolio item keeps id, name,     *)
(* brand, category, custom_entry and detected_products; added_date and     *)
(* image_data are left out.  A handler with an await runs in two steps,    *)
(* before and after the await.                                             *)
(***************************************************************************)
\* the content types of uploads; "<None>" for a part without a content type
ContentTypes == {"image/png", "text/plain", "<None>"}

\* the uploaded bytes: a picture without or with an alpha channel (which
\* cannot be saved as JPEG), or bytes that are no picture
Images == {"rgb", "rgba", "broken"}

\* the uploads: a picture of each kind sent as image/png, and a picture sent
\* with another or without content type
Files == [content_type : {"image/png"}, image : Images]
             \cup [content_type : ContentTypes, image : {"rgb"}]

\* the product_name parameter of an upload, the name of a product added
ProductNames == {"", "Gloss"}

\* the values of openai.api_key
OpenAIKeys == {"", "sk"}

\* the keys of MAKEUP_DATABASE
MakeupKeys == {"lipstick", "foundation", "eyeshadow", "mascara"}

\* an item of a JSON array: an object with "type" and "confidence" (in
\* hundredths), an object without "confidence", or a value that is no object
Item(type, confidence) ==
    [object |-> TRUE, type |-> type, has_confidence |-> TRUE, confidence |-> confidence]

ItemWithoutConfidence(type) ==
    [object |-> TRUE, type |-> type, has_confidence |-> FALSE, confidence |-> 0]

NotAnObject ==
    [object |-> FALSE, type |-> "", has_confidence |-> FALSE, confidence |-> 0]

\* what the vision API call comes to: an exception, a JSON array of items,
\* JSON over which the loop raises (a number, null, a string, an object with
\* keys), or text that is no JSON (words: the keywords it holds)
VisionOutcomes ==
    { [kind |-> "raises", items |-> << >>, words |-> {}],
      [kind |-> "json", items |-> << >>, words |-> {}],
      [kind |-> "json", words |-> {},
       items |-> << Item("lipstick", 90), Item("blush", 95),
                    Item("lipstick", 70), Item("mascara", 60) >>],
      [kind |-> "not_objects", items |-> << >>, words |-> {}],
      [kind |-> "text", items |-> << >>, words |-> {"lip", "palette"}] }

\* the outcomes of the vision API call met by the handlers
HandlerVision == {vision \in VisionOutcomes : vision.kind \in {"raises", "json"}}

\* content_type.startswith('image/')
StartsWithImage(content_type) == content_type \in {"image/png", "image/jpeg"}

RECURSIVE Unique(_)
\* the loop over detected_products with the set seen: first occurrences, in order
Unique(products) ==
    IF products = << >> THEN << >>
    ELSE LET front == Unique(SubSeq(products, 1, Len(products) - 1))
             last == products[Len(products)]
         IN  IF \E k \in DOMAIN front : front[k] = last THEN front ELSE Append(front, last)

\* item.get("confidence", 0)
GetConfidence(item) == IF item.has_confidence THEN item.confidence ELSE 0

\* the loop over detected_items raises: item.get of a value that is no object
LoopRaises(items) == \E k \in DOMAIN items : ~items[k].object

RECURSIVE DetectedFromSixty(_)
\* the loop, had the test been confidence >= 0.6
DetectedFromSixty(items) ==
    IF items = << >> THEN << >>
    ELSE LET rest == DetectedFromSixty(Tail(items))
         IN  IF GetConfidence(Head(items)) >= 60 /\ Head(items).type \in MakeupKeys
             THEN << Head(items).type >> \o rest
             ELSE rest

RECURSIVE Detected(_)
\* the loop over detected_items: the types of the items of confidence above
\* 0.6 that are keys of MAKEUP_DATABASE
Detected(items) ==
    IF items = << >> THEN << >>
    ELSE LET rest == Detected(Tail(items))
         IN  IF GetConfidence(Head(items)) > 60 /\ Head(items).type \in MakeupKeys
             THEN << Head(items).type >> \o rest
             ELSE rest

\* the keyword tests on a response that is no JSON
Keywords(words) ==
    (IF words \cap {"lipstick", "lip"} # {} THEN << "lipstick" >> ELSE << >>)
        \o (IF words \cap {"foundation", "base makeup"} # {} THEN << "foundation" >> ELSE << >>)
        \o (IF words \cap {"mascara", "eye makeup"} # {} THEN << "mascara" >> ELSE << >>)
        \o (IF words \cap {"eyeshadow", "palette"} # {} THEN << "eyeshadow" >> ELSE << >>)

\* analyze_makeup_image(image) when openai.api_key is key and the API call
\* comes to vision
analyze_makeup_imageEmptyOnError(image, key, vision) ==
    IF key = "" THEN << "foundation" >>
    ELSE IF image = "rgba" \/ vision.kind \in {"raises", "not_objects"} THEN << >>
    ELSE IF vision.kind = "json"
         THEN IF LoopRaises(vision.items) THEN << >>
              ELSE Unique(Detected(vision.items))
    ELSE Unique(Keywords(vision.words))

analyze_makeup_image(image, key, vision) ==
    IF key = "" THEN << "foundation" >>
    ELSE IF image = "rgba" \/ vision.kind \in {"raises", "not_objects"}
         THEN << "foundation" >>
    ELSE IF vision.kind = "json"
         THEN IF LoopRaises(vision.items) THEN << "foundation" >>
              ELSE Unique(Detected(vision.items))
    ELSE Unique(Keywords(vision.words))

\* "id": len(USER_PORTFOLIO) + 1, of add_to_portfolio and of
\* upload_product_to_portfolio
NewIdOfLast(portfolio) ==
    IF portfolio = << >> THEN 1 ELSE portfolio[Len(portfolio)].id

NewId(portfolio) == Len(portfolio) + 1

\* [p for p in USER_PORTFOLIO if p.get("id") != product_id]
WithoutUpTo(portfolio, product_id) ==
    SelectSeq(portfolio, LAMBDA p : p.id > product_id)

Without(portfolio, product_id) ==
    SelectSeq(portfolio, LAMBDA p : p.id # product_id)

\* the response of an HTTPException(status_code, detail)
HTTPException(status_code, detail) ==
    [NoBackendResponse EXCEPT !.status = status_code, !.detail = detail]

\* the statements of a handler's try block before its await, for a file:
\* the exception they raise, as str() shows it, or "" for none
BeforeAwait(file) ==
    IF file.content_type = "<None>"
    THEN "'NoneType' object has no attribute 'startswith'"
    ELSE IF ~StartsWithImage(file.content_type) THEN "400: File must be an image"
    ELSE ""

\* POST /analyze-makeup up to await file.read()
AnalyzeMakeupBegin(h) ==
    /\ handlers[h].pc = "idle"
    /\ \E file \in Files :
          handlers' = [handlers EXCEPT ![h] =
              IF BeforeAwait(file) # ""
              THEN [op |-> "analyze_makeup", pc |-> "done", file |-> file,
                    product_name |-> "", product_id |-> 0,
                    response |-> HTTPException(500, << "Error processing image: ",
                                                       BeforeAwait(file) >>)]
              ELSE [op |-> "analyze_makeup", pc |-> "await", file |-> file,
                    product_name |-> "", product_id |-> 0, response |-> NoBackendResponse]]
    /\ UNCHANGED << analysis, openai_api_key, USER_PORTFOLIO, indexVars, threads, quickVars, stockVars >>

\* POST /analyze-makeup from the await on, had an empty list been returned
\* as it is
AnalyzeMakeupEndNoGeneric(h) ==
    /\ handlers[h].op = "analyze_makeup"
    /\ handlers[h].pc = "await"
    /\ \E vision \in HandlerVision :
          LET image == handlers[h].file.image
              detected_products == analyze_makeup_image(image, openai_api_key, vision)
          IN  handlers' = [handlers EXCEPT
                  ![h].pc = "done",
                  ![h].response =
                      IF image = "broken"
                      THEN HTTPException(500, << "Error processing image: ",
                                                 "cannot identify image file" >>)
                      ELSE [NoBackendResponse EXCEPT
                               !.status = 200, !.success = TRUE,
                               !.products_detected = Len(detected_products),
                               !.products = detected_products]]
    /\ UNCHANGED << analysis, openai_api_key, USER_PORTFOLIO, indexVars, threads, quickVars, stockVars >>

\* POST /analyze-makeup from the await on
AnalyzeMakeupEnd(h) ==
    /\ handlers[h].op = "analyze_makeup"
    /\ handlers[h].pc = "await"
    /\ \E vision \in HandlerVision :
          LET image == handlers[h].file.image
              found == analyze_makeup_image(image, openai_api_key, vision)
              detected_products == IF found = << >> THEN << "general" >> ELSE found
          IN  handlers' = [handlers EXCEPT
                  ![h].pc = "done",
                  ![h].response =
                      IF image = "broken"
                      THEN HTTPException(500, << "Error processing image: ",
                                                 "cannot identify image file" >>)
                      ELSE [NoBackendResponse EXCEPT
                               !.status = 200, !.success = TRUE,
                               !.products_detected = Len(detected_products),
                               !.products = detected_products]]
    /\ UNCHANGED << analysis, openai_api_key, USER_PORTFOLIO, indexVars, threads, quickVars, stockVars >>

\* POST /portfolio/upload up to await file.read()
UploadProductToPortfolioBegin(h) ==
    /\ handlers[h].pc = "idle"
    /\ \E file \in Files, product_name \in ProductNames :
          handlers' = [handlers EXCEPT ![h] =
              IF BeforeAwait(file) # ""
              THEN [op |-> "upload_product_to_portfolio", pc |-> "done", file |-> file,
                    product_name |-> product_name, product_id |-> 0,
                    response |-> HTTPException(500, << "Error uploading product: ",
                                                       BeforeAwait(file) >>)]
              ELSE [op |-> "upload_product_to_portfolio", pc |-> "await", file |-> file,
                    product_name |-> product_name, product_id |-> 0, response |-> NoBackendResponse]]
    /\ UNCHANGED << analysis, openai_api_key, USER_PORTFOLIO, indexVars, threads, quickVars, stockVars >>

\* POST /portfolio/upload from the await on, had the item been appended
\* before the thumbnail is built
UploadProductToPortfolioEndAppendsFirst(h) ==
    /\ handlers[h].op = "upload_product_to_portfolio"
    /\ handlers[h].pc = "await"
    /\ handlers[h].file.image # "broken" => Len(USER_PORTFOLIO) < MaxPortfolio
    /\ \E vision \in HandlerVision :
          LET image == handlers[h].file.image
              detected_products == analyze_makeup_image(image, openai_api_key, vision)
              portfolio_item ==
                  [id |-> Len(USER_PORTFOLIO) + 1,
                   name |-> IF handlers[h].product_name # "" THEN handlers[h].product_name
                            ELSE "Custom Product",
                   brand |-> "Unknown Brand", category |-> "Makeup Product",
                   custom_entry |-> TRUE, detected_products |-> detected_products]
          IN  /\ USER_PORTFOLIO' = IF image = "broken" THEN USER_PORTFOLIO
                                   ELSE Append(USER_PORTFOLIO, portfolio_item)
              /\ handlers' = [handlers EXCEPT
                     ![h].pc = "done",
                     ![h].response =
                         IF image = "rgb"
                         THEN [NoBackendResponse EXCEPT
                                  !.status = 200, !.success = TRUE,
                                  !.message = "Product uploaded to portfolio",
                                  !.product = portfolio_item,
                                  !.products = detected_products]
                         ELSE HTTPException(500, << "Error uploading product: ",
                                                    "cannot write mode RGBA as JPEG" >>)]
    /\ UNCHANGED << analysis, openai_api_key, indexVars, threads, quickVars, stockVars >>

\* POST /portfolio/upload from the await on
UploadProductToPortfolioEnd(h) ==
    /\ handlers[h].op = "upload_product_to_portfolio"
    /\ handlers[h].pc = "await"
    /\ handlers[h].file.image = "rgb" => Len(USER_PORTFOLIO) < MaxPortfolio
    /\ \E vision \in HandlerVision :
          LET image == handlers[h].file.image
              detected_products == analyze_makeup_image(image, openai_api_key, vision)
              portfolio_item ==
                  [id |-> NewId(USER_PORTFOLIO),
                   name |-> IF handlers[h].product_name # "" THEN handlers[h].product_name
                            ELSE "Custom Product",
                   brand |-> "Unknown Brand", category |-> "Makeup Product",
                   custom_entry |-> TRUE, detected_products |-> detected_products]
          IN  IF image = "broken"
              THEN /\ handlers' = [handlers EXCEPT
                          ![h].pc = "done",
                          ![h].response = HTTPException(500, << "Error uploading product: ",
                                                              "cannot identify image file" >>)]
                   /\ UNCHANGED USER_PORTFOLIO
              ELSE IF image = "rgba"
              THEN /\ handlers' = [handlers EXCEPT
                          ![h].pc = "done",
                          ![h].response = HTTPException(500, << "Error uploading product: ",
                                                              "cannot write mode RGBA as JPEG" >>)]
                   /\ UNCHANGED USER_PORTFOLIO
              ELSE /\ USER_PORTFOLIO' = Append(USER_PORTFOLIO, portfolio_item)
                   /\ handlers' = [handlers EXCEPT
                          ![h].pc = "done",
                          ![h].response = [NoBackendResponse EXCEPT
                              !.status = 200, !.success = TRUE,
                              !.message = "Product uploaded to portfolio",
                              !.product = portfolio_item,
                              !.products = detected_products]]
    /\ UNCHANGED << analysis, openai_api_key, indexVars, threads, quickVars, stockVars >>

\* POST /portfolio/add with the product product_data
AddToPortfolio(h) ==
    /\ handlers[h].pc = "idle"
    /\ Len(USER_PORTFOLIO) < MaxPortfolio
    /\ \E name \in ProductNames \ {""} :
          LET product_data == [id |-> NewId(USER_PORTFOLIO), name |-> name,
                               brand |-> "", category |-> "", custom_entry |-> FALSE,
                               detected_products |-> << >>]
          IN  /\ USER_PORTFOLIO' = Append(USER_PORTFOLIO, product_data)
              /\ handlers' = [handlers EXCEPT ![h] =
                     [op |-> "add_to_portfolio", pc |-> "done", file |-> NoFile,
                      product_name |-> name, product_id |-> 0,
                      response |-> [NoBackendResponse EXCEPT
                          !.status = 200, !.success = TRUE,
                          !.message = "Product added to portfolio",
                          !.product = product_data]]]
    /\ UNCHANGED << analysis, openai_api_key, indexVars, threads, quickVars, stockVars >>

\* DELETE /portfolio/{product_id}
RemoveFromPortfolio(h) ==
    /\ handlers[h].pc = "idle"
    /\ \E product_id \in 1 .. MaxPortfolio :
          /\ USER_PORTFOLIO' = Without(USER_PORTFOLIO, product_id)
          /\ handlers' = [handlers EXCEPT ![h] =
                 [op |-> "remove_from_portfolio", pc |-> "done", file |-> NoFile,
                  product_name |-> "", product_id |-> product_id,
                  response |-> [NoBackendResponse EXCEPT
                      !.status = 200, !.success = TRUE,
                      !.message = "Product removed from portfolio"]]]
    /\ UNCHANGED << analysis, openai_api_key, indexVars, threads, quickVars, stockVars >>

\* the response of handler h has been sent
Respond(h) ==
    /\ handlers[h].pc = "done"
    /\ handlers' = [handlers EXCEPT ![h] = IdleHandler]
    /\ UNCHANGED << analysis, openai_api_key, USER_PORTFOLIO, indexVars, threads, quickVars, stockVars >>

NextBackend ==
    \E h \in Handlers :
        \/ AnalyzeMakeupBegin(h)
        \/ AnalyzeMakeupEnd(h)
        \/ UploadProductToPortfolioBegin(h)
        \/ UploadProductToPortfolioEnd(h)
        \/ AddToPortfolio(h)
        \/ RemoveFromPortfolio(h)
        \/ Respond(h)

\* the backend started with or without OPENAI_API_KEY in its environment
InitApp ==
    /\ indices_data = << >>
    /\ data_loading = TRUE
    /\ last_updated = 0
    /\ call = NoCall
    /\ ret = NoRet
    /\ response = NoResponse
    /\ threads = [t \in Threads |-> IdleThread]
    /\ api_key = ALPHA_VANTAGE_API_KEY
    /\ stock_ret = NoStockRet
    /\ stock_response = NoStockResponse
    /\ openai_api_key \in OpenAIKeys
    /\ USER_PORTFOLIO = << >>
    /\ handlers = [h \in Handlers |-> IdleHandler]
    /\ analysis = NoAnalysis
    /\ stocks_data = << >>
    /\ quick_data_loading = TRUE
    /\ quick_last_updated = 0
    /\ loader = "idle"
    /\ status = IdleStatus

SpecBackend == InitApp /\ [][NextBackend]_vars

\* the handlers that read or write USER_PORTFOLIO
NextPortfolio ==
    \E h \in Handlers :
        \/ UploadProductToPortfolioBegin(h)
        \/ UploadProductToPortfolioEnd(h)
        \/ AddToPortfolio(h)
        \/ RemoveFromPortfolio(h)
        \/ Respond(h)

SpecPortfolio == InitApp /\ [][NextPortfolio]_vars

\* the items met in the JSON arrays
JsonItems ==
    { Item("lipstick", 90), Item("lipstick", 60), Item("mascara", 61),
      Item("blush", 95), ItemWithoutConfidence("foundation"), NotAnObject }

RECURSIVE SeqsUpTo(_, _)
\* the sequences over S of length at most n
SeqsUpTo(S, n) ==
    IF n = 0 THEN {<< >>}
    ELSE LET shorter == SeqsUpTo(S, n - 1)
         IN  shorter \cup {Append(q, x) : q \in shorter, x \in S}

\* what the vision API call comes to, for the calls of analyze_makeup_image
VisionReplies ==
    VisionOutcomes
        \cup {[kind |-> "json", items |-> items, words |-> {}] :
                  items \in SeqsUpTo(JsonItems, MaxItems)}
        \cup {[kind |-> "text", items |-> << >>, words |-> words] :
                  words \in {{}, {"mascara"}, {"foundation", "lipstick"}}}

\* analyze_makeup_image(image) of a picture that was opened
AnalyzeMakeupImage ==
    /\ analysis = NoAnalysis
    /\ \E image \in Images \ {"broken"}, vision \in VisionReplies :
          analysis' = [image |-> image, vision |-> vision,
                       returned |-> analyze_makeup_image(image, openai_api_key, vision)]
    /\ UNCHANGED << openai_api_key, USER_PORTFOLIO, handlers,
                    indexVars, threads, quickVars, stockVars >>

\* the caller is done with the list returned
DiscardAnalysis ==
    /\ analysis # NoAnalysis
    /\ analysis' = NoAnalysis
    /\ UNCHANGED << openai_api_key, USER_PORTFOLIO, handlers,
                    indexVars, threads, quickVars, stockVars >>

\* the handlers of POST /analyze-makeup
NextAnalyzeMakeup ==
    \E h \in Handlers :
        \/ AnalyzeMakeupBegin(h)
        \/ AnalyzeMakeupEnd(h)
        \/ Respond(h)

SpecAnalyzeMakeup == InitApp /\ [][NextAnalyzeMakeup]_vars

NextAnalyze == AnalyzeMakeupImage \/ DiscardAnalysis

SpecAnalyze == InitApp /\ [][NextAnalyze]_vars


(***************************************************************************)
(* quick_server: the background loader thread and the handler of           *)
(* /api/data-status, one statement that reads or writes a global at a      *)
(* time.                                                                   *)
(***************************************************************************)
\* what the requests of one fetch_all_stocks call of the loader come to: all
\* five alike
QuickOutcomes == {[k \in DOMAIN sp500_symbols |-> outcome] : outcome \in ApiOutcomes}

\* datetime.now() of the loader
QuickTime == LoadTime + CallMinute

\* where control goes when a statement of the except block raises: the
\* finally block runs before the exception leaves the function
ExceptRaisedSkipsFinally == "ended"

ExceptRaised == "finally"

\* threading.Thread(target=load_stock_data_background, daemon=True).start()
StartLoader ==
    /\ loader = "idle"
    /\ loader' = "try"
    /\ UNCHANGED << stocks_data, quick_data_loading, quick_last_updated, status,
                    indexVars, threads, stockVars, backendVars >>

\* try: stocks_data = stock_fetcher.fetch_all_stocks().  The call returns
\* its list, or an exception escapes it (escapes): the except block of the
\* loader provides for that.
LoaderTry ==
    /\ loader = "try"
    /\ \E outcomes \in QuickOutcomes, draw \in DemoDraws, escapes \in BOOLEAN :
          LET r == fetch_all_stocks(ALPHA_VANTAGE_API_KEY, outcomes, draw)
          IN  IF escapes \/ r.raised # ""
              THEN loader' = "except" /\ UNCHANGED stocks_data
              ELSE loader' = "try_stamp" /\ stocks_data' = r.value
    /\ UNCHANGED << quick_data_loading, quick_last_updated, status,
                    indexVars, threads, stockVars, backendVars >>

\* try: last_updated = datetime.now()
LoaderTryStamp ==
    /\ loader = "try_stamp"
    /\ quick_last_updated' = QuickTime
    /\ loader' = "finally"
    /\ UNCHANGED << stocks_data, quick_data_loading, status,
                    indexVars, threads, stockVars, backendVars >>

\* except Exception: stocks_data = stock_fetcher.fetch_all_stocks()
LoaderExcept ==
    /\ loader = "except"
    /\ \E outcomes \in QuickOutcomes, draw \in DemoDraws, escapes \in BOOLEAN :
          LET r == fetch_all_stocks(ALPHA_VANTAGE_API_KEY, outcomes, draw)
          IN  IF escapes \/ r.raised # ""
              THEN loader' = ExceptRaised /\ UNCHANGED stocks_data
              ELSE loader' = "except_stamp" /\ stocks_data' = r.value
    /\ UNCHANGED << quick_data_loading, quick_last_updated, status,
                    indexVars, threads, stockVars, backendVars >>

\* except Exception: last_updated = datetime.now()
LoaderExceptStamp ==
    /\ loader = "except_stamp"
    /\ quick_last_updated' = QuickTime
    /\ loader' = "finally"
    /\ UNCHANGED << stocks_data, quick_data_loading, status,
                    indexVars, threads, stockVars, backendVars >>

\* finally: data_loading = False; the thread ends
LoaderFinally ==
    /\ loader = "finally"
    /\ quick_data_loading' = FALSE
    /\ loader' = "ended"
    /\ UNCHANGED << stocks_data, quick_last_updated, status,
                    indexVars, threads, stockVars, backendVars >>

\* the steps of the loader thread
Loader ==
    LoaderTry \/ LoaderTryStamp \/ LoaderExcept \/ LoaderExceptStamp \/ LoaderFinally

\* GET /api/data-status: 'data_ready': not data_loading.  The server is run
\* after the loader thread has been started.
StatusReady ==
    /\ loader # "idle"
    /\ status.pc = "idle"
    /\ status' = [IdleStatus EXCEPT !.pc = "count", !.data_ready = ~quick_data_loading]
    /\ UNCHANGED << stocks_data, quick_data_loading, quick_last_updated, loader,
                    indexVars, threads, stockVars, backendVars >>

\* 'stocks_count': len(stocks_data)
StatusCount ==
    /\ status.pc = "count"
    /\ status' = [status EXCEPT !.pc = "stamp", !.stocks_count = Len(stocks_data)]
    /\ UNCHANGED << stocks_data, quick_data_loading, quick_last_updated, loader,
                    indexVars, threads, stockVars, backendVars >>

\* 'last_updated': last_updated.isoformat() if last_updated else None
StatusStamp ==
    /\ status.pc = "stamp"
    /\ status' = [status EXCEPT !.pc = "done", !.last_updated = quick_last_updated]
    /\ UNCHANGED << stocks_data, quick_data_loading, quick_last_updated, loader,
                    indexVars, threads, stockVars, backendVars >>

\* the response has been sent
StatusRespond ==
    /\ status.pc = "done"
    /\ status' = IdleStatus
    /\ UNCHANGED << stocks_data, quick_data_loading, quick_last_updated, loader,
                    indexVars, threads, stockVars, backendVars >>

NextQuick ==
    \/ StartLoader
    \/ LoaderTry
    \/ LoaderTryStamp
    \/ LoaderExcept
    \/ LoaderExceptStamp
    \/ LoaderFinally
    \/ StatusReady
    \/ StatusCount
    \/ StatusStamp
    \/ StatusRespond

\* the loader thread, once started, is scheduled again and again, and each
\* of its requests ends (timeout=10)
SpecQuick == Init /\ [][NextQuick]_vars /\ WF_vars(Loader)

(***************************************************************************)
(* Properties.                                                             *)
(***************************************************************************)
\* a call of generate_historical_data has returned (it did not raise)
Returned == ret # NoRet /\ ret.raised = ""

\* a call of generate_historical_data has ended, by a return or an exception
Ended == ret # NoRet

\* every draw of the call was 0.5: no random movement
ZeroPerturbation == call.rnd.start = 500 /\ \A k \in 1 .. StreamPeriod : call.rnd.steps[k] = 500

\* v is at least current_value * 0.1
AtLeastTenth(v, current_value) == v >= (current_value + 9) \div 10

\* C1: for every recognized timeframe, on every call date, the call returns
\* a non-empty sequence of points.
C1_NonEmptySeries ==
    (Returned /\ call.timeframe \in Recognized)
        => (Len(ret.labels) > 0 /\ Len(ret.data_points) > 0)

\* C2: a call with a timeframe tag that is not recognized raises no error:
\* it completes and returns a series.
C2_UnrecognizedReturns ==
    (Ended /\ call.timeframe \notin Recognized) => ret.raised = ""

\* what the same call returns for timeframe 1Y
SameCall1Y ==
    generate_historical_data(call.current_value, call.symbol, "1Y", call.now, call.rnd)

\* C3: a call with an unrecognized timeframe tag behaves as the same call
\* with timeframe 1Y: same candidate steps, same starting value, same labels
\* and the same number of points.
C3_UnrecognizedLike1Y ==
    (Ended /\ call.timeframe \notin Recognized)
        => /\ ret.raised = SameCall1Y.raised
           /\ ret.points = SameCall1Y.points
           /\ ret.start_value = SameCall1Y.start_value
           /\ ret.labels = SameCall1Y.labels
           /\ Len(ret.data_points) = Len(SameCall1Y.data_points)

\* C4 as claimed: every returned value, as returned after rounding to two
\* decimals, is at least current_value * 0.1.
C4_FloorAfterRounding ==
    Returned => \A k \in DOMAIN ret.data_points :
                    AtLeastTenth(ret.data_points[k], call.current_value)

\* C4 as amended: every returned value is at least current_value * 0.1
\* rounded to two decimals, and the running value is at least
\* current_value * 0.1.
C4_FloorRounded ==
    Returned => /\ \A k \in DOMAIN ret.data_points :
                      ret.data_points[k] >= Round2(call.current_value \div 10)
                /\ (ret.applied > 0 => AtLeastTenth(ret.base_value, call.current_value))

\* C4 witness: a call returned a value that sits on the rounded floor, below
\* current_value * 0.1.
C4_Witness ==
    /\ Returned
    /\ \E k \in DOMAIN ret.data_points :
          /\ ret.data_points[k] = Round2(call.current_value \div 10)
          /\ ~AtLeastTenth(ret.data_points[k], call.current_value)

\* C5: for every recognized timeframe the trend is applied on exactly
\* point_count steps, so that without random movement the running value
\* after the last step is current_value (up to the truncation of the trend
\* to thousandths, less than one thousandth a step).
C5_TrendReachesCurrentValue ==
    (Returned /\ call.timeframe \in Recognized)
        => /\ ret.applied = ret.points
           /\ ZeroPerturbation =>
                 /\ ret.base_value <= call.current_value
                 /\ ret.base_value > call.current_value - ret.points

\* C6: for every timeframe other than 1D, every returned point has a date
\* that is a weekday: no Saturday or Sunday is ever labelled.
C6_NoWeekendPoints ==
    (Ended /\ call.timeframe # "1D")
        => /\ Len(ret.point_dates) = Len(ret.labels)
           /\ \A k \in DOMAIN ret.point_dates : Weekday(ret.point_dates[k]) \in 0 .. 4

\* C6 witness: a 3M call whose window holds weekends returned its weekday points.
C6_Witness ==
    /\ Returned
    /\ call.timeframe = "3M"
    /\ Len(ret.labels) > 0
    /\ Len(ret.labels) < ret.points

\* C7: for timeframe 1D, on any call date, 24 candidate steps are considered,
\* none is skipped, and 24 points are returned whose labels are non-empty and
\* of the form HH:MM.
C7_OneDayHas24Points ==
    (Ended /\ call.timeframe = "1D")
        => /\ ret.raised = ""
           /\ ret.points = 24
           /\ ret.applied = 24
           /\ Len(ret.labels) = 24
           /\ Len(ret.data_points) = 24
           /\ \A k \in DOMAIN ret.labels :
                 /\ ret.labels[k] # EmptyLabel
                 /\ ret.labels[k].fmt = "%H:%M"
                 /\ ret.labels[k].a \in 0 .. 23
                 /\ ret.labels[k].b \in 0 .. 59

\* C7 witness: a 1D call made on a Saturday returned.
C7_Witness ==
    /\ Returned
    /\ call.timeframe = "1D"
    /\ Weekday(call.now) = 5
    /\ Len(ret.labels) = 24

\* C8 as claimed: for timeframe 1Y the number of returned points is
\* 365 / 30 rounded down or up, 12 or 13.
C8_MonthlyCount ==
    (Returned /\ call.timeframe = "1Y") => Len(ret.labels) \in {12, 13}

\* C8 as amended: for timeframe 1Y there are 13 candidate labels (the steps
\* that are multiples of 30), those dated on a weekend (3 or 4 of them) are
\* skipped, and 9 or 10 points are returned, each labelled month and year.
C8_MonthlyCountWeekdays ==
    (Returned /\ call.timeframe = "1Y")
        => /\ Len(ret.labels) \in {9, 10}
           /\ Len(ret.data_points) = Len(ret.labels)
           /\ \A k \in DOMAIN ret.labels : ret.labels[k].fmt = "%b %Y"

\* C8 witness: a 1Y call returned 9 points.
C8_Witness ==
    /\ Returned
    /\ call.timeframe = "1Y"
    /\ Len(ret.labels) = 9

\* the draws of the reference call of C9
RefStream == [start |-> 999, steps |-> [k \in 1 .. StreamPeriod |-> 0]]

\* C9 as claimed: the length of the returned sequence is a function of
\* current_value, symbol and timeframe only: the call returns as many
\* points as the call with the same three inputs made on the first call day.
C9_LengthFromInputsOnly ==
    Returned
        => Len(ret.data_points) =
             Len(generate_historical_data(call.current_value, call.symbol, call.timeframe,
                     FirstCallDay * MinutesPerDay + CallMinute, call.rnd).data_points)

\* C9 as amended: the length of the returned sequence is a function of the
\* timeframe and the call date only: the call returns as many points as a
\* call with the same timeframe made at the same time with another
\* current_value, another symbol and other draws.
C9_LengthFromTimeframeAndDate ==
    Returned
        => Len(ret.data_points) =
             Len(generate_historical_data(100000, "AAPL", call.timeframe,
                     call.now, RefStream).data_points)

\* C9 witness: a 1M call made on a Wednesday with inputs other than the
\* reference call's returned 22 points (a Monday's returns 20).
C9_Witness ==
    /\ Returned
    /\ call.timeframe = "1M"
    /\ Weekday(call.now) = 2
    /\ call.current_value # 100000
    /\ call.symbol = "IXIC"
    /\ call.rnd # RefStream
    /\ Len(ret.data_points) = 22

\* C10 as claimed: for every timeframe other than 1D the number of steps
\* that update the running value is strictly smaller than point_count.
C10_FewerStepsThanPoints ==
    (Returned /\ call.timeframe # "1D") => ret.applied < ret.points

\* C10 as amended: for 1M, 3M and 1Y the number of steps that update the
\* running value is strictly smaller than point_count; for 5Y and 10Y all
\* steps fall on one weekday and the number is point_count or 0.
C10_FewerStepsDaily ==
    /\ (Returned /\ call.timeframe \in {"1M", "3M", "1Y"})
          => (ret.applied > 0 /\ ret.applied < ret.points)
    /\ (Returned /\ call.timeframe \in {"5Y", "10Y"})
          => ret.applied \in {0, ret.points}

\* C10 witness: a 5Y call updated the running value on all 260 steps.
C10_Witness ==
    /\ Returned
    /\ call.timeframe = "5Y"
    /\ ret.applied = 260
    /\ ret.points = 260

\* the steps of a 1Y call made at time now whose date is a weekday
WeekdaySteps1Y(now) ==
    {i \in 0 .. 364 : Weekday(now - 365 * MinutesPerDay + i * MinutesPerDay) \in 0 .. 4}

\* C11: in timeframe 1Y every step dated on a weekday updates the running
\* base_value, whether or not its label is empty: the updates are as many as
\* the weekday steps, more than the points returned.
C11_UnlabelledStepsAccumulate ==
    (Returned /\ call.timeframe = "1Y")
        => /\ ret.applied = Cardinality(WeekdaySteps1Y(call.now))
           /\ ret.applied > Len(ret.data_points)

\* C11 witness: a 1Y call updated the running value on 261 steps and
\* returned fewer points.
C11_Witness ==
    /\ Returned
    /\ call.timeframe = "1Y"
    /\ ret.applied = 261
    /\ Len(ret.data_points) < 261

\* C12: every call ends after at most point_count iterations, at most 365,
\* and returns at most point_count points, for every timeframe and all draws.
C12_AtMostPointCount ==
    Ended => /\ ret.points \in 1 .. 365
             /\ ret.applied <= ret.points
             /\ Len(ret.labels) <= ret.points
             /\ Len(ret.data_points) <= ret.points

\* C12 witness: a 5Y call returned exactly point_count points.
C12_Witness ==
    /\ Returned
    /\ call.timeframe = "5Y"
    /\ Len(ret.data_points) = ret.points

\* C13: for every recognized timeframe and every symbol the volatility the
\* call resolves lies in (0, 0.05]; it is the entry of the table, and the
\* default 0.015 for a symbol other than SPX, IXIC and DJI.
C13_VolatilityRange ==
    Returned => /\ ret.volatility \in 1 .. 50
                /\ ret.volatility = volatility_map(call.timeframe, call.symbol)
                /\ call.symbol \notin {"SPX", "IXIC", "DJI"}
                      => ret.volatility = DefaultVolatility
                /\ call.timeframe \in Recognized

\* C13 witness: a 10Y call for a symbol without an entry resolved 0.015.
C13_Witness ==
    /\ Returned
    /\ call.timeframe = "10Y"
    /\ call.symbol = "AAPL"
    /\ ret.volatility = 15

\* a symbol other than the given one: with and without a volatility entry
OtherSymbol(symbol) == IF symbol = "AAPL" THEN "SPX" ELSE "AAPL"

\* C14: the symbol influences only the volatility: the same call with
\* another symbol returns the same labels and as many points, and the same
\* values when the two symbols have the same volatility.
C14_SymbolOnlyVolatility ==
    Returned
        => LET r == generate_historical_data(call.current_value, OtherSymbol(call.symbol),
                                             call.timeframe, call.now, call.rnd)
           IN  /\ r.raised = ""
               /\ r.labels = ret.labels
               /\ Len(r.data_points) = Len(ret.data_points)
               /\ r.volatility = ret.volatility => r.data_points = ret.data_points

\* C14 witness: a 1M call for SPX, whose volatility is the default one, with
\* draws that move the value, returned points.
C14_Witness ==
    /\ Returned
    /\ call.timeframe = "1M"
    /\ call.symbol = "SPX"
    /\ ret.volatility = volatility_map("1M", OtherSymbol("SPX"))
    /\ ~ZeroPerturbation
    /\ Len(ret.data_points) > 0

\* C15: the returned points are in chronological order, oldest first, each
\* dated strictly later than the one before it, and no candidate date is
\* later than the call time.
C15_Chronological ==
    Returned
        => /\ \A k \in 1 .. (Len(ret.point_dates) - 1) :
                 ret.point_dates[k] < ret.point_dates[k + 1]
           /\ \A i \in 0 .. (ret.points - 1) :
                 PointDate(call.timeframe, timeframe_config(call.timeframe),
                           call.now - timeframe_config(call.timeframe).days * MinutesPerDay,
                           i) <= call.now

\* C15 witness: a 10Y call returned 260 points, the last one dated before
\* the call.
C15_Witness ==
    /\ Returned
    /\ call.timeframe = "10Y"
    /\ Len(ret.point_dates) = 260
    /\ ret.point_dates[1] < ret.point_dates[260]
    /\ ret.point_dates[260] < call.now

\* C16: at every point of a call and at its return labels and data_points
\* have the same length, and no returned label is empty.
C16_LabelsPairedWithValues ==
    Ended => /\ ret.paired
             /\ Len(ret.labels) = Len(ret.data_points)
             /\ \A k \in DOMAIN ret.labels : ret.labels[k] # EmptyLabel

\* C16 witness: a 1Y call that passed steps with an empty label returned 10
\* points.
C16_Witness ==
    /\ Returned
    /\ call.timeframe = "1Y"
    /\ ret.applied > 10
    /\ Len(ret.labels) = 10
    /\ Len(ret.data_points) = 10

\* the call of thread t returned, or raised, what the same call made alone does
ResultAlone(t) ==
    LET cl == threads[t].call
        r == generate_historical_data(cl.current_value, cl.symbol, cl.timeframe, cl.now, cl.rnd)
    IN  /\ threads[t].raised = r.raised
        /\ threads[t].st.labels = r.labels
        /\ threads[t].st.data_points = r.data_points

\* C17: generate_historical_data holds no global mutable state: no step of
\* a call changes indices_data, data_loading or last_updated, and a call
\* interleaved in any order with another one returns what it returns alone.
C17_CallsIndependent ==
    /\ [](\A t \in Threads : threads[t].pc = "done" => ResultAlone(t))
    /\ [][threads' # threads
             => UNCHANGED << indices_data, data_loading, last_updated >>]_vars

\* C17 witness: a call that was entered while another call was inside its
\* loop has returned points, and the other call is still inside its loop.
C17_Witness ==
    \E t \in Threads, u \in Threads :
        /\ t # u
        /\ threads[t].pc = "done"
        /\ threads[t].within
        /\ Len(threads[t].st.data_points) > 0
        /\ threads[u].pc = "loop"
        /\ threads[u].i > 0
        /\ ~data_loading

\* C18: POST /analyze-makeup and POST /portfolio/upload with a file whose
\* content type does not start with 'image/' respond with status 400 and
\* detail 'File must be an image'.
C18_NonImageRejectedWith400 ==
    \A h \in Handlers :
        (/\ handlers[h].pc = "done"
         /\ handlers[h].op \in {"analyze_makeup", "upload_product_to_portfolio"}
         /\ handlers[h].file.content_type = "text/plain")
            => /\ handlers[h].response.status = 400
               /\ handlers[h].response.detail = << "File must be an image" >>

\* the request to the quote API of the fetcher call made last failed
FetchFailed ==
    /\ stock_ret.called = "get_stock_quote"
    /\ api_key # ""
    /\ stock_ret.outcomes[1].kind \in RaisingKinds \cup {"no_global_quote"}

\* C19: get_stock_quote returns None when fetching the quote fails, and
\* GET /api/stock/<symbol> then responds with 404, success false and the
\* error 'Stock <symbol> not found'.
C19_FailedFetchGives404 ==
    FetchFailed
        => /\ stock_ret.value = << None >>
           /\ stock_response # NoStockResponse
                 => /\ stock_response.status = 404
                    /\ ~stock_response.success
                    /\ stock_response.error = << "Stock ", stock_response.arg, " not found" >>

\* the fetcher call made last used demo data for its k-th request
DemoExpected(k) ==
    \/ api_key = ""
    \/ stock_ret.outcomes[k].kind \in RaisingKinds \cup {"no_global_quote"}

C21_LoadingEnds == [](loader # "idle" => <>[](~quick_data_loading))

\* C21 witness: the loader has ended after fetch_all_stocks raised twice, and
\* data_loading is False.
C21_Witness ==
    /\ loader = "ended"
    /\ ~quick_data_loading
    /\ stocks_data = << >>
    /\ quick_last_updated = 0

Ids(portfolio) == [k \in DOMAIN portfolio |-> portfolio[k].id]

\* C23: after any sequence of POST /portfolio/add, POST /portfolio/upload and
\* DELETE /portfolio/{product_id}, no two items of USER_PORTFOLIO have the
\* same id.
C23_IdsDistinct ==
    \A i, j \in DOMAIN USER_PORTFOLIO :
        i # j => USER_PORTFOLIO[i].id # USER_PORTFOLIO[j].id

\* the ids of the items are their positions
Positional == \A k \in DOMAIN USER_PORTFOLIO : USER_PORTFOLIO[k].id = k

\* the step is a DELETE /portfolio/{product_id} handled by h
RemoveStep(h) ==
    handlers[h].pc = "idle" /\ handlers'[h].op = "remove_from_portfolio"

\* C24: when no removal is performed, in every interleaving of
\* /portfolio/add and /portfolio/upload handlers, the item at position k of
\* USER_PORTFOLIO has id k: no step other than a removal takes the portfolio
\* from ids that are positions to ids that are not, and it starts empty.
C24_IdsArePositions ==
    [][(Positional /\ ~(\E h \in Handlers : RemoveStep(h))) => Positional']_vars

\* C24 witness: an upload has appended item 2 while the upload of the other
\* handler is at its await, and the ids are the positions.
C24_Witness ==
    /\ Positional
    /\ Len(USER_PORTFOLIO) = 2
    /\ \E h, g \in Handlers :
          /\ handlers[h].op = "upload_product_to_portfolio"
          /\ handlers[h].pc = "done"
          /\ handlers[h].response.success
          /\ handlers[h].response.product.id = 2
          /\ handlers[g].op = "upload_product_to_portfolio"
          /\ handlers[g].pc = "await"

\* the positions of the items of portfolio whose id is not product_id
KeptIndexes(portfolio, product_id) ==
    {k \in DOMAIN portfolio : portfolio[k].id # product_id}

\* C25: DELETE /portfolio/{product_id} removes every item whose id equals
\* product_id and nothing else: the other items remain, in their order and
\* unchanged; when no item has that id the portfolio is unchanged; the
\* response is success = true in every case.
C25_RemovesExactlyThatId ==
    [][\A h \in Handlers :
          RemoveStep(h) =>
              LET kept == KeptIndexes(USER_PORTFOLIO, handlers'[h].product_id)
              IN  /\ Len(USER_PORTFOLIO') = Cardinality(kept)
                  /\ \A k \in kept :
                        USER_PORTFOLIO'[Cardinality({i \in kept : i <= k})]
                            = USER_PORTFOLIO[k]
                  /\ kept = DOMAIN USER_PORTFOLIO => USER_PORTFOLIO' = USER_PORTFOLIO
                  /\ handlers'[h].response.success
                  /\ handlers'[h].response.status = 200]_vars

\* C25 witness: item 1 of a portfolio of two has been removed and the item
\* of id 2 is what is left.
C25_Witness ==
    /\ Ids(USER_PORTFOLIO) = << 2 >>
    /\ \E h \in Handlers :
          /\ handlers[h].op = "remove_from_portfolio"
          /\ handlers[h].pc = "done"
          /\ handlers[h].product_id = 1

\* the step ends a POST /portfolio/upload handled by h
UploadEnds(h) ==
    /\ handlers[h].pc # "done"
    /\ handlers'[h].op = "upload_product_to_portfolio"
    /\ handlers'[h].pc = "done"

\* C26: when POST /portfolio/upload ends with an error response,
\* USER_PORTFOLIO is left unchanged; when it ends with success = true,
\* exactly one item, the one of the response, has been appended.
C26_AppendOnlyOnSuccess ==
    [][\A h \in Handlers :
          UploadEnds(h) =>
              IF handlers'[h].response.success
              THEN /\ handlers'[h].response.status = 200
                   /\ USER_PORTFOLIO'
                          = Append(USER_PORTFOLIO, handlers'[h].response.product)
              ELSE /\ handlers'[h].response.status # 200
                   /\ USER_PORTFOLIO' = USER_PORTFOLIO]_vars

\* C26 witness: an upload of a picture that cannot be saved as JPEG has
\* ended with an error, next to a portfolio that holds an item.
C26_Witness ==
    /\ Len(USER_PORTFOLIO) = 1
    /\ \E h \in Handlers :
          /\ handlers[h].op = "upload_product_to_portfolio"
          /\ handlers[h].pc = "done"
          /\ handlers[h].file.image = "rgba"
          /\ ~handlers[h].response.success

\* analyze_makeup_image has been called with a key configured, and the
\* picture was encoded
ApiCalled ==
    /\ analysis # NoAnalysis
    /\ openai_api_key # ""
    /\ analysis.image = "rgb"

\* C27 as stated: with no key configured, and whenever image encoding, the
\* API call or the processing of the response raises any exception (the
\* JSONDecodeError of json.loads on a reply that is no JSON included),
\* analyze_makeup_image returns exactly the list of the 'foundation' entry.
C27_FoundationOnAnyException ==
    (/\ analysis # NoAnalysis
     /\ \/ openai_api_key = ""
        \/ analysis.image = "rgba"
        \/ analysis.vision.kind \in {"raises", "not_objects", "text"}
        \/ analysis.vision.kind = "json" /\ LoopRaises(analysis.vision.items))
        => analysis.returned = << "foundation" >>

\* C27 amended: with no key configured, and whenever image encoding, the
\* API call or the processing of the response raises an exception other
\* than the JSONDecodeError of json.loads, analyze_makeup_image returns
\* exactly the list of the 'foundation' entry; after a JSONDecodeError it
\* returns the products of the keyword tests, each once.
C27_FoundationOnException ==
    /\ (/\ analysis # NoAnalysis
        /\ \/ openai_api_key = ""
           \/ analysis.image = "rgba"
           \/ analysis.vision.kind \in {"raises", "not_objects"}
           \/ analysis.vision.kind = "json" /\ LoopRaises(analysis.vision.items))
           => analysis.returned = << "foundation" >>
    /\ (ApiCalled /\ analysis.vision.kind = "text")
           => /\ \A i, j \in DOMAIN analysis.returned :
                    i # j => analysis.returned[i] # analysis.returned[j]
              /\ ("lipstick" \in {analysis.returned[k] : k \in DOMAIN analysis.returned})
                    <=> (analysis.vision.words \cap {"lipstick", "lip"} # {})
              /\ ("foundation" \in {analysis.returned[k] : k \in DOMAIN analysis.returned})
                    <=> (analysis.vision.words \cap {"foundation", "base makeup"} # {})

\* C27 witness: the second item of a JSON array is no object, after an item
\* that qualifies, and the list of the 'foundation' entry was returned.
C27_Witness ==
    /\ ApiCalled
    /\ analysis.vision.kind = "json"
    /\ Len(analysis.vision.items) = 2
    /\ analysis.vision.items[1] = Item("lipstick", 90)
    /\ analysis.vision.items[2] = NotAnObject
    /\ analysis.returned = << "foundation" >>

\* an item of confidence above 0.6 whose type is a key of MAKEUP_DATABASE
Qualifies(item) ==
    /\ item.object
    /\ item.has_confidence
    /\ item.confidence > 60
    /\ item.type \in MakeupKeys

\* the position of the first item of a type that qualifies
FirstAt(items, type) ==
    CHOOSE k \in DOMAIN items :
        /\ Qualifies(items[k]) /\ items[k].type = type
        /\ \A i \in 1 .. k - 1 : ~(Qualifies(items[i]) /\ items[i].type = type)

\* returned holds the types of the items that qualify, each once, in the
\* order of their first occurrence
ExactlyQualifying(items, returned) ==
    /\ {returned[k] : k \in DOMAIN returned}
           = {items[k].type : k \in {i \in DOMAIN items : Qualifies(items[i])}}
    /\ \A i, j \in DOMAIN returned :
           i < j => /\ returned[i] # returned[j]
                    /\ FirstAt(items, returned[i]) < FirstAt(items, returned[j])

C29_AtLeastOneProduct ==
    \A h \in Handlers :
        (/\ handlers[h].op = "analyze_makeup"
         /\ handlers[h].pc = "done"
         /\ handlers[h].response.success)
            => LET products == handlers[h].response.products
               IN  /\ Len(products) >= 1
                   /\ handlers[h].response.products_detected = Len(products)
                   /\ (\E k \in DOMAIN products : products[k] = "general")
                          => products = << "general" >>

\* C29 witness: a success response that lists the generic product.
C29_Witness ==
    \E h \in Handlers :
        /\ handlers[h].op = "analyze_makeup"
        /\ handlers[h].pc = "done"
        /\ handlers[h].response.success
        /\ handlers[h].response.products = << "general" >>
        /\ handlers[h].response.products_detected = 1
====
